---- MODULE Spec2Model ----
(***************************************************************************)
(* A model of gerbv_vis.py: the Gerber file classifier                     *)
(* (find_gerber_files), the layer project composer                         *)
(* (generate_gerbv_project) and the render driver (main).                  *)
(*                                                                         *)
(* File names and paths are strings; the regular expressions, str.lower,   *)
(* str.replace, sorted, os.path.join and os.path.basename are computed     *)
(* character by character.                                                 *)
(***************************************************************************)
EXTENDS Integers, Sequences, FiniteSets, TLC

VARIABLES
    pc,           \* position of main: "scan", "compose", "render", "wait", "done"
    args,         \* the parsed command line (argparse namespace)
    dir,          \* names of the entries of the scanned directory args.path
    fs,           \* viewer project files written so far: path -> content
    all_gerbers,  \* the dict returned by find_gerber_files
    proj_idx,     \* number of projects main's outer loop has finished
    gvp_files,    \* the list gvp_files of main
    job_idx,      \* number of render jobs finished
    proc,         \* the running renderer process: <<>> or <<its argument record>>
    invocations,  \* every renderer process started, in order
    stdout,       \* the lines printed, in order
    returncodes,  \* the exit code of every renderer process that has exited, in order
    exit_status,  \* <<>> while main runs, <<code>> once it has returned
    call          \* arguments of a direct call of generate_gerbv_project, or <<>>

vars == <<pc, args, dir, fs, all_gerbers, proj_idx, gvp_files, job_idx, proc,
          invocations, returncodes, stdout, exit_status, call>>

-----------------------------------------------------------------------------
(* Characters and strings *)

\* F(e), with e evaluated once however often F uses its argument.
With(e, F(_)) == CHOOSE r \in {F(x) : x \in {e}} : TRUE

Ch(s, i) == SubSeq(s, i, i)

\* The printable ASCII characters in code point order: 32..95 and 97..126
\* (the grave accent, 96, cannot be written in a string here and is left out).
AsciiLo == " !\"#$%&'()*+,-./0123456789:;<=>?@ABCDEFGHIJKLMNOPQRSTUVWXYZ[\\]^_"

AsciiHi == "abcdefghijklmnopqrstuvwxyz{|}~"

NL == "\n"

RECURSIVE CodePoints(_, _, _)
\* The characters of s from position i on, each with its code point, the first
\* character of s having code point first.
CodePoints(s, i, first) ==
    IF i > Len(s) THEN <<>>
    ELSE (Ch(s, i) :> (first + i - 1)) @@ CodePoints(s, i + 1, first)

OrdTable == CodePoints(AsciiLo, 1, 32) @@ CodePoints(AsciiHi, 1, 97) @@ (NL :> 10)

\* Code point of a character (Python's ord).
Ord(c) == OrdTable[c]

\* chr(n) for a printable character
Chr(n) == IF n <= 95 THEN Ch(AsciiLo, n - 31) ELSE Ch(AsciiHi, n - 96)

IsDigit(c) == Ord(c) >= 48 /\ Ord(c) <= 57

IsUpper(c) == Ord(c) >= 65 /\ Ord(c) <= 90

IsLowerCase(c) == Ord(c) >= 97 /\ Ord(c) <= 122

\* The class \w of the re module on the characters modelled here.
IsWord(c) == IsDigit(c) \/ IsUpper(c) \/ IsLowerCase(c) \/ c = "_"

\* The class . of the re module: anything but a newline.
IsAny(c) == c # NL

RECURSIVE Lower(_)
\* str.lower
Lower(s) ==
    IF Len(s) = 0 THEN ""
    ELSE (IF IsUpper(Ch(s, 1)) THEN Chr(Ord(Ch(s, 1)) + 32) ELSE Ch(s, 1))
         \o Lower(SubSeq(s, 2, Len(s)))

\* s < t for Python strings: lexicographic by code point.
StrLess(s, t) ==
    LET n == IF Len(s) < Len(t) THEN Len(s) ELSE Len(t)
        diff == {i \in 1..n : Ch(s, i) # Ch(t, i)}
    IN IF diff = {} THEN Len(s) < Len(t)
       ELSE LET d == CHOOSE i \in diff : \A j \in diff : i <= j
            IN Ord(Ch(s, d)) < Ord(Ch(t, d))

StartsWith(s, p) == Len(s) >= Len(p) /\ SubSeq(s, 1, Len(p)) = p

RECURSIVE Replace(_, _, _)
\* str.replace(old, new) for a non-empty old: every non-overlapping occurrence,
\* found left to right.
Replace(s, old, new) ==
    IF Len(s) < Len(old) THEN s
    ELSE IF StartsWith(s, old)
         THEN new \o Replace(SubSeq(s, Len(old) + 1, Len(s)), old, new)
         ELSE Ch(s, 1) \o Replace(SubSeq(s, 2, Len(s)), old, new)

RECURSIVE ToStr(_)
\* "{}".format(n) for a natural number n.
ToStr(n) == IF n < 10 THEN Chr(48 + n) ELSE ToStr(n \div 10) \o Chr(48 + (n % 10))

\* os.path.join(a, b) on POSIX.
OsPathJoin(a, b) ==
    IF StartsWith(b, "/") THEN b
    ELSE IF Len(a) = 0 \/ Ch(a, Len(a)) = "/" THEN a \o b
    ELSE a \o "/" \o b

\* os.path.basename(p) on POSIX: what follows the last slash.
OsPathBasename(p) ==
    LET slashes == {i \in 1..Len(p) : Ch(p, i) = "/"}
        last == IF slashes = {} THEN 0
                ELSE CHOOSE i \in slashes : \A j \in slashes : j <= i
    IN SubSeq(p, last + 1, Len(p))

-----------------------------------------------------------------------------
(* sorted(os.listdir(path)) *)

RECURSIVE Insert(_, _)
Insert(sorted, x) ==
    IF Len(sorted) = 0 THEN <<x>>
    ELSE IF StrLess(x, Head(sorted)) THEN <<x>> \o sorted
    ELSE <<Head(sorted)>> \o Insert(Tail(sorted), x)

\* The list as os.listdir gave it, not sorted.
Unsorted(list) == list

RECURSIVE PySorted(_)
\* sorted(list) of strings: ascending by code point.
PySorted(list) ==
    IF Len(list) = 0 THEN <<>>
    ELSE With(PySorted(Tail(list)), LAMBDA rest : Insert(rest, Head(list)))

RECURSIVE ListDir(_)
\* The orders in which os.listdir may return the entries d of a directory.
ListDir(d) ==
    IF d = {} THEN {<<>>}
    ELSE UNION {{<<x>> \o o : o \in ListDir(d \ {x})} : x \in d}

-----------------------------------------------------------------------------
(* find_gerber_files *)

RECURSIVE WordRunEnd(_, _)
\* The last position of the longest run of \w characters of s starting at p
\* (p - 1 when there is none): how far a greedy \w+ reaches.
WordRunEnd(s, p) ==
    IF p <= Len(s) /\ IsWord(Ch(s, p)) THEN WordRunEnd(s, p + 1) ELSE p - 1

\* The positions where $ matches: the end of the string, and just before a
\* newline that ends it.
DollarEnds(s) ==
    {Len(s)} \cup (IF Len(s) > 0 /\ Ch(s, Len(s)) = NL THEN {Len(s) - 1} ELSE {})

\* The end of group 3 when it starts at p: a greedy \w+ from p that gives
\* characters back until $ matches; 0 when there is no such end.
ExtEnd(file, p) ==
    LET ends == {k \in DollarEnds(file) : k >= p /\ k <= WordRunEnd(file, p)}
    IN IF ends = {} THEN 0 ELSE CHOOSE k \in ends : \A e \in ends : e <= k

RECURSIVE TryLayerEnd(_, _, _)
\* "(\w+).(\w+)$" from position i + 1 with group 2 ending at j or, failing
\* that, earlier (the greedy \w+ gives characters back one at a time):
\* <<j, k>> for group 2 = file[i+1..j], any character but a newline at j + 1
\* and group 3 = file[j+2..k]; <<>> when nothing matches.
TryLayerEnd(file, i, j) ==
    IF j <= i THEN <<>>
    ELSE IF j + 1 <= Len(file) /\ IsAny(Ch(file, j + 1)) /\ ExtEnd(file, j + 2) # 0
         THEN <<j, ExtEnd(file, j + 2)>>
         ELSE TryLayerEnd(file, i, j - 1)

RECURSIVE TryHyphen(_, _)
\* "(.*)-(\w+).(\w+)$" from the start of file with group 1 = file[1..i-1] or,
\* failing that, shorter (the greedy .* gives characters back one at a time):
\* <<i, j, k>>, or <<>> when nothing matches.
TryHyphen(file, i) ==
    IF i < 1 THEN <<>>
    ELSE With(IF Ch(file, i) = "-" /\ (\A h \in 1..(i - 1) : IsAny(Ch(file, h)))
              THEN TryLayerEnd(file, i, WordRunEnd(file, i + 1))
              ELSE <<>>,
              LAMBDA rest :
                  IF rest # <<>> THEN <<i, rest[1], rest[2]>> ELSE TryHyphen(file, i - 1))

\* re.match("(.*)-(\w+).(\w+)$", file): <<>> for None, else <<groups>>.
MatchFileName(file) ==
    With(TryHyphen(file, Len(file)),
         LAMBDA m :
             IF m = <<>> THEN <<>>
             ELSE <<[project |-> SubSeq(file, 1, m[1] - 1),
                     layer   |-> SubSeq(file, m[1] + 1, m[2]),
                     ext     |-> SubSeq(file, m[2] + 2, m[3])]>>)

\* The same with the pattern "g\w+|drl".
IsGerberExtAnyG(ext) ==
    \/ Len(ext) >= 2 /\ Ch(ext, 1) = "g" /\ IsWord(Ch(ext, 2))
    \/ StartsWith(ext, "drl")

\* re.match("g[tb][opsl]|g\d+|gm\d+|drl", ext) is not None. re.match anchors the
\* pattern at the start of ext only: what follows the matched prefix is free.
IsGerberExt(ext) ==
    \/ /\ Len(ext) >= 3
       /\ Ch(ext, 1) = "g"
       /\ Ch(ext, 2) \in {"t", "b"}
       /\ Ch(ext, 3) \in {"o", "p", "s", "l"}
    \/ /\ Len(ext) >= 2
       /\ Ch(ext, 1) = "g"
       /\ IsDigit(Ch(ext, 2))
    \/ /\ Len(ext) >= 3
       /\ StartsWith(ext, "gm")
       /\ IsDigit(Ch(ext, 3))
    \/ StartsWith(ext, "drl")

\* What one iteration of the loop of find_gerber_files makes of the entry file,
\* up to the rejection of non-gerber files: <<>> when the entry is skipped,
\* else <<[project, layer]>>.
ParseEntry(file) ==
    With(MatchFileName(file),
         LAMBDA match :
             IF match = <<>> THEN <<>>
             ELSE With(Lower(match[1].ext),
                       LAMBDA ext :
                           IF ~IsGerberExt(ext) THEN <<>>
                           ELSE <<[project |-> match[1].project,
                                   layer   |-> match[1].layer]>>))

-----------------------------------------------------------------------------
(* The directory entries the model runs on *)

\* Largest number of entries of a scanned directory.
MaxFiles == 3

\* Largest number of entries of a directory given to find_gerber_files alone.
MaxScanFiles == 2

\* The directory entries main is run on: two projects, copper layers inside and
\* outside the range main looks for, the same layer under two extensions, a
\* paste layer, a project name holding ".gvp", and a viewer project left by an
\* earlier run.
MainNames ==
    {"a-F_Cu.gtl", "a-F_Cu.GTL", "a-B_Cu.gbl", "a-In1_Cu.g2", "a-In30_Cu.g31",
     "a-In31_Cu.g32", "a-In0_Cu.g1", "a-F_Paste.gtp", "a-top.gvp", "b-F_Cu.gtl",
     "a.gvp-B_Cu.gbl"}

\* The parts the entries given to find_gerber_files alone are built from.
ScanProjects == {"a", "a-b", ""}

ScanLayers == {"F_Cu", "In1_Cu"}

ScanSeparators == {".", " ", "_"}

ScanExts ==
    {"gtl", "GTL", "gtlx", "gta", "gt", "g1", "g12", "g1x", "gm1", "gm",
     "drl", "drl2", "xgtl", "gvp"}

ScanNames ==
    {p \o "-" \o l \o sep \o e :
        p \in ScanProjects, l \in ScanLayers, sep \in ScanSeparators, e \in ScanExts}
    \cup {"F_Cu.gtl", "a-.gtl", "a-F_Cu.", "a-F_Cu-g1", "a-F_Cu.gtl" \o NL,
          "a-F_Cu" \o NL \o "gtl"}

-----------------------------------------------------------------------------
(* find_gerber_files, continued *)

\* A dict that keeps its insertion order: keys in order, and the values.
EmptyDict == [keys |-> <<>>, map |-> <<>>]

HasKey(d, k) == k \in DOMAIN d.map

\* d[k] = v
DictSet(d, k, v) ==
    [keys |-> IF HasKey(d, k) THEN d.keys ELSE Append(d.keys, k),
     map  |-> (k :> v) @@ d.map]

\* One iteration of the loop of find_gerber_files, on the entry file; acc holds
\* the dict gerbers and the lines printed so far.
ClassifyEntry(acc, path, file) ==
    With(ParseEntry(file),
         LAMBDA parsed :
             IF parsed = <<>> THEN acc
             ELSE LET project == parsed[1].project
                      layer   == parsed[1].layer
                  IN With(IF HasKey(acc.gerbers, project) THEN acc.gerbers
                          ELSE DictSet(acc.gerbers, project, <<>>),
                          LAMBDA g0 :
                              [gerbers |-> DictSet(g0, project,
                                               (layer :> OsPathJoin(path, file))
                                                   @@ g0.map[project]),
                               out     |-> Append(acc.out, <<"Found", file>>)]))

RECURSIVE ClassifyAll(_, _, _)
ClassifyAll(acc, path, files) ==
    IF Len(files) = 0 THEN acc
    ELSE With(ClassifyEntry(acc, path, Head(files)),
              LAMBDA next : ClassifyAll(next, path, Tail(files)))

\* find_gerber_files(path), os.listdir(path) having returned listing: the dict
\* returned and the lines printed.
FindGerberFiles(path, listing) ==
    With(PySorted(listing),
         LAMBDA files : ClassifyAll([gerbers |-> EmptyDict, out |-> <<>>], path, files))

-----------------------------------------------------------------------------
(* generate_gerbv_project *)

COLORS ==
    [board      |-> <<51, 43, 22, 255>>,
     copper     |-> <<179, 156, 0, 255>>,
     soldermask |-> <<20, 51, 36, 200>>,
     silkscreen |-> <<230, 230, 230, 255>>,
     paste      |-> <<128, 128, 128, 255>>]

BLACK == <<0, 0, 0, 255>>

\* color[:3] with every channel times 256
ScaleRGB(color) == [i \in 1..3 |-> color[i] * 256]

\* write_layer with the inverted line written for every layer.
WriteLayerInvertsAll(file_name, idx, color, is_inverted) ==
    [idx      |-> idx,
     filename |-> file_name,
     inverted |-> TRUE,
     visible  |-> TRUE,
     color    |-> [i \in 1..3 |-> color[i] * 256],
     alpha    |-> <<color[4] * 256>>]

\* The (define-layer! ...) form write_layer writes. inverted and visible say
\* whether the form holds that line; alpha is <<>> when it holds no alpha line.
WriteLayer(file_name, idx, color, is_inverted) ==
    [idx      |-> idx,
     filename |-> file_name,
     inverted |-> is_inverted,
     visible  |-> TRUE,
     color    |-> ScaleRGB(color),
     alpha    |-> <<color[4] * 256>>]

\* write_layer(...) without the layer_idx += 1 that follows it.
AddLayerNoIncrement(st, file_name, color, is_inverted) ==
    [layers    |-> Append(st.layers,
                      [idx |-> st.layer_idx, filename |-> file_name,
                       inverted |-> is_inverted, visible |-> TRUE,
                       color |-> [i \in 1..3 |-> color[i] * 256],
                       alpha |-> <<color[4] * 256>>]),
     layer_idx |-> st.layer_idx]

\* write_layer(...) followed by layer_idx += 1
AddLayer(st, file_name, color, is_inverted) ==
    [layers    |-> Append(st.layers, WriteLayer(file_name, st.layer_idx, color, is_inverted)),
     layer_idx |-> st.layer_idx + 1]

\* PasteShown without the test of show_paste.
PasteShownAlways(gerbers, l, show_paste) == l \in DOMAIN gerbers

\* The condition under which the paste layer l is written.
PasteShown(gerbers, l, show_paste) == l \in DOMAIN gerbers /\ show_paste

\* The overlay blocks of a top or bottom copper layer: paste, silkscreen, mask.
SideLayers(st, gerbers, layer, show_paste) ==
    LET prefix == Ch(layer, 1)
        paste  == prefix \o "_Paste"
        silk   == prefix \o "_Silkscreen"
        mask   == prefix \o "_Mask"
        s1 == IF PasteShown(gerbers, paste, show_paste)
              THEN AddLayer(st, gerbers[paste], COLORS.paste, FALSE) ELSE st
        s2 == IF silk \in DOMAIN gerbers
              THEN AddLayer(s1, gerbers[silk], COLORS.silkscreen, FALSE) ELSE s1
    IN IF mask \in DOMAIN gerbers
       THEN AddLayer(s2, gerbers[mask], COLORS.soldermask, TRUE) ELSE s2

\* The epilogue's background form: index -1, empty file name, a color only.
Background ==
    [idx      |-> -1,
     filename |-> "",
     inverted |-> FALSE,
     visible  |-> FALSE,
     color    |-> ScaleRGB(COLORS.board),
     alpha    |-> <<>>]

\* The content generate_gerbv_project writes: the version of the prologue, the
\* define-layer! forms in the order written, and the render type that ends it.
GenerateGerbvProject(gerbers, layer, show_paste) ==
    LET s0 == [layers |-> <<>>, layer_idx |-> 0]
        s1 == IF "Edge_Cuts" \in DOMAIN gerbers
              THEN AddLayer(s0, gerbers["Edge_Cuts"], BLACK, FALSE) ELSE s0
        s2 == IF "PTH" \in DOMAIN gerbers
              THEN AddLayer(s1, gerbers["PTH"], BLACK, FALSE) ELSE s1
        s3 == IF "NPTH" \in DOMAIN gerbers
              THEN AddLayer(s2, gerbers["NPTH"], BLACK, FALSE) ELSE s2
        s4 == IF layer \in {"F_Cu", "B_Cu"}
              THEN SideLayers(s3, gerbers, layer, show_paste) ELSE s3
        s5 == AddLayer(s4, gerbers[layer], COLORS.copper, FALSE)
    IN [version     |-> "2.0A",
        layers      |-> Append(s5.layers, Background),
        render_type |-> 3]

-----------------------------------------------------------------------------
(* main *)

\* for i in range(2, 32)
RangeStart == 2

\* range(2, 31)
RangeStopOneLess == RangeStart + 29

RangeStop == 32

InnerLayerId(i) == "In" \o ToStr(i - 1) \o "_Cu"

InnerLayerName(i) == "in" \o ToStr(i - 1)

RECURSIVE InnerJobs(_, _)
\* The write_gvp calls of the loop over the intermediate layers, from i on.
InnerJobs(gerbers, i) ==
    IF i >= RangeStop THEN <<>>
    ELSE (IF InnerLayerId(i) \in DOMAIN gerbers
          THEN <<[layer_id |-> InnerLayerId(i), layer_name |-> InnerLayerName(i)]>>
          ELSE <<>>)
         \o InnerJobs(gerbers, i + 1)

\* The write_gvp calls main makes for one project, in order.
ProjectJobs(gerbers) ==
    (IF "F_Cu" \in DOMAIN gerbers
     THEN <<[layer_id |-> "F_Cu", layer_name |-> "top"]>> ELSE <<>>)
    \o (IF "B_Cu" \in DOMAIN gerbers
        THEN <<[layer_id |-> "B_Cu", layer_name |-> "bot"]>> ELSE <<>>)
    \o InnerJobs(gerbers, RangeStart)

\* "{}-{}.gvp".format(project, layer_name)
GvpName(project, layer_name) == project \o "-" \o layer_name \o ".gvp"

\* The path write_gvp writes and returns.
GvpPath(path, project, layer_name) == OsPathJoin(path, GvpName(project, layer_name))

\* The image path of a render job.
ImgFile(gvp_file, format, output) ==
    LET img_file == Replace(gvp_file, ".gvp", "." \o format)
    IN IF output # <<>> THEN OsPathJoin(output[1], OsPathBasename(img_file))
       ELSE img_file

\* The argument list of the renderer.
GvbArgs(a, gvp_file) ==
    [gerbv     |-> a.gerbv,
     dpi       |-> a.dpi,
     antialias |-> TRUE,
     export    |-> a.format,
     project   |-> gvp_file,
     output    |-> ImgFile(gvp_file, a.format, a.output)]

-----------------------------------------------------------------------------
(* Inputs *)

\* Inner copper layers In1_Cu .. In<MaxInner>_Cu offered to the composer.
MaxInner == 1

\* The layers of one board with the extensions KiCad gives their files.
BoardLayers ==
    {<<"Edge_Cuts", "gm1">>, <<"PTH", "drl">>, <<"NPTH", "drl">>,
     <<"F_Cu", "gtl">>, <<"F_Paste", "gtp">>, <<"F_Silkscreen", "gto">>,
     <<"F_Mask", "gts">>, <<"B_Cu", "gbl">>, <<"B_Paste", "gbp">>,
     <<"B_Silkscreen", "gbo">>, <<"B_Mask", "gbs">>}
    \cup {<<InnerLayerId(n + 1), "g" \o ToStr(n + 1)>> : n \in 1..MaxInner}

BoardName(x) == "a-" \o x[1] \o "." \o x[2]

\* The mapping find_gerber_files returns for the files of the layers b in "d".
BoardGerbers(b) ==
    [l \in {x[1] : x \in b} |->
        OsPathJoin("d", BoardName(CHOOSE x \in b : x[1] = l))]

\* The layers a direct call of generate_gerbv_project is given as its target.
Targets == {"F_Cu", "B_Cu"} \cup {InnerLayerId(n + 1) : n \in 1..MaxInner}

\* Exit codes of the renderer.
ExitCodes == {0, 2}

Paths == {"d", "d.gvp/"}

Formats == {"png", "svg"}

Outputs == {<<>>, <<"out">>}

DefaultArgs ==
    [path |-> "d", format |-> "png", dpi |-> 300, output |-> <<>>,
     gerbv |-> "/usr/local/bin/gerbv", show_paste |-> FALSE]

\* The command lines main is run with: every path, format and output
\* directory without --show-paste, and the default ones with it.
Args ==
    {[DefaultArgs EXCEPT !.path = p, !.format = f, !.output = o] :
        p \in Paths, f \in Formats, o \in Outputs}
    \cup {[DefaultArgs EXCEPT !.show_paste = TRUE]}

RECURSIVE SubsetsUpTo(_, _)
\* The subsets of S of at most n elements.
SubsetsUpTo(S, n) ==
    IF n = 0 THEN {{}}
    ELSE LET smaller == SubsetsUpTo(S, n - 1)
         IN smaller \cup {d \cup {x} : d \in smaller, x \in S}

-----------------------------------------------------------------------------
(* The state after argument parsing, and the actions *)

InitWith(d, a, p, c) ==
    /\ pc = p
    /\ args = a
    /\ dir = d
    /\ fs = <<>>
    /\ all_gerbers = EmptyDict
    /\ proj_idx = 0
    /\ gvp_files = <<>>
    /\ job_idx = 0
    /\ proc = <<>>
    /\ invocations = <<>>
    /\ returncodes = <<>>
    /\ stdout = <<>>
    /\ exit_status = <<>>
    /\ call = c

\* main, after parser.parse_args()
Init == \E d \in SubsetsUpTo(MainNames, MaxFiles), a \in Args : InitWith(d, a, "scan", <<>>)

\* all_gerbers = find_gerber_files(args.path)
Scan ==
    /\ pc = "scan"
    /\ \E listing \in ListDir(dir) :
         \E r \in {FindGerberFiles(args.path, listing)} :
            /\ all_gerbers' = r.gerbers
            /\ stdout' = stdout \o r.out
    /\ pc' = "compose"
    /\ UNCHANGED <<args, dir, fs, proj_idx, gvp_files, job_idx, proc, invocations,
                   returncodes, exit_status, call>>

RECURSIVE WriteAll(_, _, _, _, _)
\* The write_gvp calls jobs of one project, in order, on st, which holds the
\* files written, the directory, gvp_files and the lines printed.
WriteAll(st, a, project, gerbers, jobs) ==
    IF Len(jobs) = 0 THEN st
    ELSE LET name      == GvpName(project, Head(jobs).layer_name)
             file_name == GvpPath(a.path, project, Head(jobs).layer_name)
             content   == GenerateGerbvProject(gerbers, Head(jobs).layer_id, a.show_paste)
         IN With([fs        |-> (file_name :> content) @@ st.fs,
                  dir       |-> st.dir \cup {name},
                  gvp_files |-> Append(st.gvp_files, file_name),
                  out       |-> Append(st.out, <<"Writing", name>>)],
                 LAMBDA next : WriteAll(next, a, project, gerbers, Tail(jobs)))

\* One iteration of "for project, gerbers in all_gerbers.items()"
ComposeProject ==
    /\ pc = "compose"
    /\ proj_idx < Len(all_gerbers.keys)
    /\ LET project == all_gerbers.keys[proj_idx + 1]
           gerbers == all_gerbers.map[project]
       IN \E st \in {WriteAll([fs |-> fs, dir |-> dir, gvp_files |-> gvp_files,
                                out |-> stdout],
                               args, project, gerbers, ProjectJobs(gerbers))} :
             /\ fs' = st.fs
             /\ dir' = st.dir
             /\ gvp_files' = st.gvp_files
             /\ stdout' = st.out
    /\ proj_idx' = proj_idx + 1
    /\ UNCHANGED <<pc, args, all_gerbers, job_idx, proc, invocations, returncodes,
                   exit_status, call>>

\* The loop over the projects ends.
ComposeDone ==
    /\ pc = "compose"
    /\ proj_idx = Len(all_gerbers.keys)
    /\ pc' = "render"
    /\ UNCHANGED <<args, dir, fs, all_gerbers, proj_idx, gvp_files, job_idx, proc,
                   invocations, returncodes, stdout, exit_status, call>>

\* One iteration of "for gvp_file in gvp_files", up to subprocess.Popen
RenderStart ==
    /\ pc = "render"
    /\ job_idx < Len(gvp_files)
    /\ \E gvb_args \in {GvbArgs(args, gvp_files[job_idx + 1])} :
          /\ stdout' = Append(stdout, <<"Generating", OsPathBasename(gvb_args.output)>>)
          /\ proc' = <<gvb_args>>
          /\ invocations' = Append(invocations, gvb_args)
    /\ pc' = "wait"
    /\ UNCHANGED <<args, dir, fs, all_gerbers, proj_idx, gvp_files, job_idx,
                   returncodes, exit_status, call>>

\* The same, main exiting with the code of the first renderer that fails.
AfterWaitAbort(returncode) ==
    /\ stdout' = IF returncode # 0 THEN Append(stdout, <<"ERROR", returncode>>) ELSE stdout
    /\ returncodes' = Append(returncodes, returncode)
    /\ proc' = <<>>
    /\ job_idx' = job_idx + 1
    /\ pc' = IF returncode # 0 THEN "done" ELSE "render"
    /\ exit_status' = IF returncode # 0 THEN <<returncode>> ELSE exit_status

\* What follows p.wait() once the renderer has exited with returncode.
AfterWait(returncode) ==
    /\ stdout' = IF returncode # 0 THEN Append(stdout, <<"ERROR", returncode>>) ELSE stdout
    /\ returncodes' = Append(returncodes, returncode)
    /\ proc' = <<>>
    /\ job_idx' = job_idx + 1
    /\ pc' = "render"
    /\ exit_status' = exit_status

\* p.wait() returns: the renderer has exited.
RenderExit ==
    /\ pc = "wait"
    /\ \E returncode \in ExitCodes : AfterWait(returncode)
    /\ UNCHANGED <<args, dir, fs, all_gerbers, proj_idx, gvp_files, invocations, call>>

\* The loop over the render jobs ends and main returns.
Finish ==
    /\ pc = "render"
    /\ job_idx = Len(gvp_files)
    /\ pc' = "done"
    /\ exit_status' = <<0>>
    /\ UNCHANGED <<args, dir, fs, all_gerbers, proj_idx, gvp_files, job_idx, proc,
                   invocations, returncodes, stdout, call>>

Next == Scan \/ ComposeProject \/ ComposeDone \/ RenderStart \/ RenderExit \/ Finish

Spec == Init /\ [][Next]_vars

\* find_gerber_files alone, on a directory of entries of many shapes.
InitClassify ==
    \E d \in SubsetsUpTo(ScanNames, MaxScanFiles) : InitWith(d, DefaultArgs, "scan", <<>>)

SpecClassify == InitClassify /\ [][Scan]_vars

\* generate_gerbv_project alone: a direct call on the mapping of a board, a
\* target the mapping holds and either value of show_paste.
InitCompose ==
    \E b \in SUBSET BoardLayers, t \in Targets, sp \in BOOLEAN :
        /\ t \in {x[1] : x \in b}
        /\ InitWith({BoardName(x) : x \in b}, DefaultArgs, "call",
                    <<[file |-> "d/a.gvp", gerbers |-> BoardGerbers(b),
                       layer |-> t, show_paste |-> sp]>>)

\* generate_gerbv_project(file, gerbers, layer, show_paste)
Generate ==
    /\ pc = "call"
    /\ fs' = (call[1].file :>
                GenerateGerbvProject(call[1].gerbers, call[1].layer, call[1].show_paste)) @@ fs
    /\ pc' = "returned"
    /\ UNCHANGED <<args, dir, all_gerbers, proj_idx, gvp_files, job_idx, proc,
                   invocations, returncodes, stdout, exit_status, call>>

SpecCompose == InitCompose /\ [][Generate]_vars

-----------------------------------------------------------------------------
(* Properties of find_gerber_files *)

\* find_gerber_files has returned.
Scanned == pc = "compose" /\ proj_idx = 0

\* The entry file of the scanned directory is a value of the result mapping.
Stored(file) ==
    \E p \in DOMAIN all_gerbers.map : \E l \in DOMAIN all_gerbers.map[p] :
        all_gerbers.map[p][l] = OsPathJoin(args.path, file)

AllDigits(s) == \A i \in 1..Len(s) : IsDigit(Ch(s, i))

AllWord(s) == \A i \in 1..Len(s) : IsWord(Ch(s, i))

\* ext is exactly one of the whitelisted forms: g[tb][opsl], g and digits,
\* gm and digits, drl.
ExactlyWhitelisted(ext) ==
    \/ /\ Len(ext) = 3
       /\ Ch(ext, 1) = "g"
       /\ Ch(ext, 2) \in {"t", "b"}
       /\ Ch(ext, 3) \in {"o", "p", "s", "l"}
    \/ Len(ext) >= 2 /\ Ch(ext, 1) = "g" /\ AllDigits(SubSeq(ext, 2, Len(ext)))
    \/ Len(ext) >= 3 /\ StartsWith(ext, "gm") /\ AllDigits(SubSeq(ext, 3, Len(ext)))
    \/ ext = "drl"

\* C1: once find_gerber_files has returned, every entry of the directory that
\* is in the result mapping has a lower-cased extension that is exactly one of
\* the whitelisted forms; an entry whose extension is a whitelisted form
\* followed by more word characters is not in the mapping.
C1_OnlyWhitelistedStored ==
    Scanned =>
        \A file \in dir :
            Stored(file) =>
                /\ MatchFileName(file) # <<>>
                /\ ExactlyWhitelisted(Lower(MatchFileName(file)[1].ext))

\* C2: once find_gerber_files has returned, every entry stored under
\* (project, layer) is named project + "-" + layer + "." + extension, layer and
\* extension being non-empty runs of word characters.
C2_StoredNameShape ==
    Scanned =>
        \A p \in DOMAIN all_gerbers.map : \A l \in DOMAIN all_gerbers.map[p] :
            \A file \in dir :
                all_gerbers.map[p][l] = OsPathJoin(args.path, file) =>
                    /\ Len(l) > 0 /\ AllWord(l)
                    /\ StartsWith(file, p \o "-" \o l \o ".")
                    /\ LET ext == SubSeq(file, Len(p) + Len(l) + 3, Len(file))
                       IN Len(ext) > 0 /\ AllWord(ext)

-----------------------------------------------------------------------------
(* Properties of generate_gerbv_project *)

\* The direct call has returned.
Returned == pc = "returned"

\* The define-layer! forms of the file the direct call wrote.
Written == fs[call[1].file].layers

\* The content layer blocks: every form but the last.
Content == SubSeq(Written, 1, Len(Written) - 1)

RECURSIVE Present(_, _)
\* The layers of order that gerbers holds, in order.
Present(order, gerbers) ==
    IF Len(order) = 0 THEN <<>>
    ELSE (IF Head(order) \in DOMAIN gerbers THEN <<Head(order)>> ELSE <<>>)
         \o Present(Tail(order), gerbers)

\* The fixed order of the content blocks for a target.
FixedOrder(target, show_paste) ==
    LET side == Ch(target, 1)
    IN <<"Edge_Cuts", "PTH", "NPTH">>
       \o (IF target \in {"F_Cu", "B_Cu"}
           THEN (IF show_paste THEN <<side \o "_Paste">> ELSE <<>>)
                \o <<side \o "_Silkscreen", side \o "_Mask">>
           ELSE <<>>)
       \o <<target>>

\* C3: the files of the content blocks are those of the fixed order Edge_Cuts,
\* PTH, NPTH, paste, silkscreen, mask, target, filtered to the layers of the
\* mapping, the side layers only for F_Cu and B_Cu and the paste layer only
\* with show_paste; the target is the last content block and only the
\* background follows it.
C3_FixedOrder ==
    Returned =>
        LET c == call[1]
            expected == Present(FixedOrder(c.layer, c.show_paste), c.gerbers)
        IN /\ Len(Content) = Len(expected)
           /\ \A i \in 1..Len(expected) : Content[i].filename = c.gerbers[expected[i]]
           /\ Content[Len(Content)].filename = c.gerbers[c.layer]
           /\ Written[Len(Written)] = Background

\* C3 witness: a full F-side group with show_paste gives 7 content blocks.
C3_Witness ==
    /\ Returned
    /\ call[1].layer = "F_Cu"
    /\ call[1].show_paste
    /\ {"Edge_Cuts", "PTH", "NPTH", "F_Paste", "F_Silkscreen", "F_Mask"} \subseteq DOMAIN call[1].gerbers
    /\ Len(Content) = 7

\* C4: a block carries the inversion flag if and only if it is the soldermask
\* block of the target's side.
C4_OnlyMaskInverted ==
    Returned =>
        LET c == call[1]
            mask == Ch(c.layer, 1) \o "_Mask"
        IN \A i \in 1..Len(Written) :
              Written[i].inverted <=>
                  /\ c.layer \in {"F_Cu", "B_Cu"}
                  /\ mask \in DOMAIN c.gerbers
                  /\ Written[i].filename = c.gerbers[mask]

\* C4 witness: a file with an inverted soldermask block among other blocks,
\* written from a mapping that also holds the other side's soldermask.
C4_Witness ==
    /\ Returned
    /\ call[1].layer = "B_Cu"
    /\ {"F_Mask", "B_Mask", "B_Silkscreen", "Edge_Cuts"} \subseteq DOMAIN call[1].gerbers
    /\ \E i \in 1..Len(Written) : Written[i].inverted

\* C8: the stacking indices of the content blocks are 0, 1, ..., n-1 in the
\* order written, and the only other form is the background, with index -1
\* and the empty file name.
C8_SequentialIndices ==
    Returned =>
        /\ \A i \in 1..Len(Content) : Content[i].idx = i - 1 /\ Content[i].filename # ""
        /\ Written[Len(Written)].idx = -1
        /\ Written[Len(Written)].filename = ""

\* C8 witness: a file whose optional layers are partly absent.
C8_Witness ==
    /\ Returned
    /\ call[1].layer = "F_Cu"
    /\ "PTH" \notin DOMAIN call[1].gerbers
    /\ "F_Silkscreen" \notin DOMAIN call[1].gerbers
    /\ {"Edge_Cuts", "NPTH", "F_Mask"} \subseteq DOMAIN call[1].gerbers
    /\ Len(Content) = 4

-----------------------------------------------------------------------------
(* Properties of main *)

\* The loop over the projects has just ended: no render job has started.
Composed == pc = "render" /\ job_idx = 0

\* The (project, layer) pairs of the result mapping.
Pairs ==
    UNION {{<<p, l>> : l \in DOMAIN all_gerbers.map[p]} : p \in DOMAIN all_gerbers.map}

\* The lines printed for renderer failures, in order.
ErrorLines == SelectSeq(stdout, LAMBDA line : line[1] = "ERROR")

RECURSIVE Failures(_)
\* The error line of every nonzero exit code of codes, in order.
Failures(codes) ==
    IF Len(codes) = 0 THEN <<>>
    ELSE (IF Head(codes) # 0 THEN <<<<"ERROR", Head(codes)>>>> ELSE <<>>)
         \o Failures(Tail(codes))

\* C5: whatever the exit codes, the renderer is started once for every composed
\* project file, in the order of gvp_files, each process only after the one
\* before it has exited; every nonzero exit code gives one error line naming
\* it; and main returns normally, every job done, with exit status 0.
C5_RenderEveryJob ==
    /\ Len(returncodes) = job_idx
    /\ Len(invocations) = job_idx + Len(proc)
    /\ Len(invocations) <= Len(gvp_files)
    /\ \A i \in 1..Len(invocations) : invocations[i].project = gvp_files[i]
    /\ proc # <<>> => proc[1] = invocations[Len(invocations)]
    /\ ErrorLines = Failures(returncodes)
    /\ exit_status # <<>> <=> pc = "done"
    /\ pc = "done" =>
          /\ exit_status = <<0>>
          /\ proc = <<>>
          /\ Len(invocations) = Len(gvp_files)

\* C5 witness: main has returned after three jobs, the first having failed
\* with code 2 and the last having succeeded.
C5_Witness ==
    /\ pc = "done"
    /\ Len(gvp_files) = 3
    /\ returncodes = <<2, 2, 0>>

\* The path p with new in the place of the ".gvp" that ends it.
TrailingGvpReplaced(p, new) == SubSeq(p, 1, Len(p) - 4) \o new

\* C6: the image path of every render job is the project file's path with the
\* ".gvp" that ends it replaced by "." and the format, and nothing else changed,
\* when no output directory is given, and the output directory joined with the
\* base name of that path otherwise.
C6_ImagePath ==
    \A i \in 1..Len(invocations) :
        LET img == TrailingGvpReplaced(invocations[i].project, "." \o args.format)
        IN invocations[i].output =
              IF args.output = <<>> THEN img
              ELSE OsPathJoin(args.output[1], OsPathBasename(img))

RECURSIVE SomeListing(_)
\* Some order of a set of names.
SomeListing(d) ==
    IF d = {} THEN <<>>
    ELSE LET x == CHOOSE y \in d : TRUE IN <<x>> \o SomeListing(d \ {x})

\* C7: find_gerber_files run again on the directory, the viewer project files
\* written into it, returns the (project, layer) pairs it returned before, with
\* the same files; no viewer project file written is a file of the mapping.
C7_RoundTrip ==
    Composed =>
        LET again == FindGerberFiles(args.path, SomeListing(dir)).gerbers
        IN /\ again.map = all_gerbers.map
           /\ \A i \in 1..Len(gvp_files) :
                 /\ OsPathBasename(gvp_files[i]) \in dir
                 /\ \A x \in Pairs : again.map[x[1]][x[2]] # gvp_files[i]

\* C7 witness: two viewer project files have been written into a directory
\* that held a viewer project file before.
C7_Witness ==
    /\ Composed
    /\ Len(gvp_files) = 2
    /\ "a-top.gvp" \in dir
    /\ OsPathJoin(args.path, "a-top.gvp") \in DOMAIN fs
    /\ \E f \in dir : f \notin MainNames

\* The entries of the directory find_gerber_files files under (project, layer).
FiledUnder(project, layer) ==
    {file \in dir : ParseEntry(file) = <<[project |-> project, layer |-> layer]>>}

\* C9: once find_gerber_files has returned, whatever the order os.listdir
\* gave, the pairs of the mapping are those under which some entry is filed,
\* and each maps to the one file whose name is the last, by code point, of the
\* entries filed under it.
C9_LastNameWins ==
    Scanned =>
        /\ Pairs = {<<ParseEntry(f)[1].project, ParseEntry(f)[1].layer>> :
                        f \in {g \in dir : ParseEntry(g) # <<>>}}
        /\ \A x \in Pairs :
              \E file \in FiledUnder(x[1], x[2]) :
                  /\ all_gerbers.map[x[1]][x[2]] = OsPathJoin(args.path, file)
                  /\ \A other \in FiledUnder(x[1], x[2]) :
                        other # file => StrLess(other, file)

\* C9 witness: two entries filed under the same pair, and a third under
\* another.
C9_Witness ==
    /\ Scanned
    /\ {"a-F_Cu.gtl", "a-F_Cu.GTL", "a-B_Cu.gbl"} \subseteq dir
    /\ all_gerbers.map["a"]["F_Cu"] = OsPathJoin(args.path, "a-F_Cu.gtl")

\* The layers main composes a viewer project for, with the place of each in
\* the order of the jobs of a project and the name its file gets.
Inspected ==
    {[layer |-> "F_Cu", rank |-> 0, name |-> "top"],
     [layer |-> "B_Cu", rank |-> 1, name |-> "bot"]}
    \cup {[layer |-> "In" \o ToStr(n) \o "_Cu", rank |-> n + 1, name |-> "in" \o ToStr(n)] :
             n \in 1..30}

\* The jobs main is to create: a pair of the mapping with an inspected layer.
Wanted ==
    {[project |-> y[1][1], insp |-> y[2]] :
        y \in {z \in Pairs \X Inspected : z[2].layer = z[1][2]}}

WantedPath(w) == OsPathJoin(args.path, w.project \o "-" \o w.insp.name \o ".gvp")

\* C10: once the loop over the projects has ended, gvp_files holds one path for
\* every pair (project, layer) of the mapping with layer F_Cu, B_Cu or InN_Cu,
\* 1 <= N <= 30, and no other; distinct pairs have distinct paths; the file at
\* each path was composed with that layer as its target; and the jobs of one
\* project are in the order top, bottom, inner layers by ascending N.
C10_ComposedJobs ==
    Composed =>
        /\ {gvp_files[i] : i \in 1..Len(gvp_files)} = {WantedPath(w) : w \in Wanted}
        /\ Len(gvp_files) = Cardinality(Wanted)
        /\ \A w \in Wanted :
              /\ WantedPath(w) \in DOMAIN fs
              /\ LET layers == fs[WantedPath(w)].layers
                 IN layers[Len(layers) - 1].filename =
                       all_gerbers.map[w.project][w.insp.layer]
        /\ \A i, j \in 1..Len(gvp_files) : \A v, w \in Wanted :
              /\ i < j
              /\ gvp_files[i] = WantedPath(v)
              /\ gvp_files[j] = WantedPath(w)
              /\ v.project = w.project
              => v.insp.rank < w.insp.rank

\* C10 witness: a project with the inner layers 1, 30 and 31, of which the
\* first two got a file, in the order in1, in30.
C10_Witness ==
    /\ Composed
    /\ {"a-In1_Cu.g2", "a-In30_Cu.g31", "a-In31_Cu.g32"} \subseteq dir
    /\ gvp_files = <<OsPathJoin(args.path, "a-in1.gvp"), OsPathJoin(args.path, "a-in30.gvp")>>

====
